---- MODULE Spec2Model ----
(***************************************************************************)
(* A model of macroquad's scene graph (src/src/scene_graph.rs), its camera *)
(* (src/src/camera.rs) and the frame loop of examples/gltf.rs.             *)
(*                                                                         *)
(* Option<T> is a sequence of length at most one: None is <<>>, Some(x) is *)
(* <<x>>.  The GPU device is observed through the list of calls made on    *)
(* quad_context during the current frame.                                  *)
(***************************************************************************)
EXTENDS Integers, Sequences, FiniteSets, TLC

VARIABLES
    models,         \* SceneGraph.models: Vec<(Model, Mat4)>
    layers_cache,   \* SceneGraph.layers_cache: Vec<QuadGl>
    layers,         \* the SpriteLayer values the caller holds (checked out)
    leaked,         \* number of SpriteLayer values dropped without draw_canvas
    gpu,            \* the calls made on quad_context in this frame, in order
    calls,          \* the scene-graph calls made in this frame, in order
    panicked,       \* a panic has unwound the frame loop
    asset,          \* the file load_model reads
    load_result,    \* Some(what load_model gave), None before the call
    gpu_buffers     \* the buffers load_model created on quad_context

vars == <<models, layers_cache, layers, leaked, gpu, calls, panicked,
          asset, load_result, gpu_buffers>>

sceneVars == <<models, layers_cache, layers, leaked, gpu, calls>>
loadVars == <<asset, load_result, gpu_buffers>>

----------------------------------------------------------------------------
(* Bounds of the model and constants of the program *)

PoolSize == 3
MaxCalls == 2
MaxTriangles == 1
MaxMeshes == 2
MaxPrimitives == 2
MaxModels == 2
MaxIndices == 4
U16 == 65536

None == <<>>
Some(x) == <<x>>
IsSome(o) == Len(o) = 1
Unwrap(o) == o[1]

Last(s) == s[Len(s)]
Front(s) == SubSeq(s, 1, Len(s) - 1)

----------------------------------------------------------------------------
(* glam::Mat4, with integer entries, as four rows of four *)

IDENTITY == <<<<1, 0, 0, 0>>, <<0, 1, 0, 0>>, <<0, 0, 1, 0>>, <<0, 0, 0, 1>>>>

MatMul(a, b) ==
    [i \in 1..4 |-> [j \in 1..4 |->
        a[i][1] * b[1][j] + a[i][2] * b[2][j] + a[i][3] * b[3][j] + a[i][4] * b[4][j]]]

from_translation(v) ==
    <<<<1, 0, 0, v[1]>>, <<0, 1, 0, v[2]>>, <<0, 0, 1, v[3]>>, <<0, 0, 0, 1>>>>

from_scale(v) ==
    <<<<v[1], 0, 0, 0>>, <<0, v[2], 0, 0>>, <<0, 0, v[3], 0>>, <<0, 0, 0, 1>>>>

\* cosine and sine of an angle given in degrees, a multiple of 90
CosDeg(d) == CASE d % 360 = 0 -> 1 [] d % 360 = 90 -> 0
               [] d % 360 = 180 -> -1 [] d % 360 = 270 -> 0
SinDeg(d) == CASE d % 360 = 0 -> 0 [] d % 360 = 90 -> 1
               [] d % 360 = 180 -> 0 [] d % 360 = 270 -> -1

\* Mat4::from_axis_angle(vec3(0, 0, 1), angle): a rotation about z by +angle
from_axis_angle_z(d) ==
    <<<<CosDeg(d), -SinDeg(d), 0, 0>>, <<SinDeg(d), CosDeg(d), 0, 0>>,
      <<0, 0, 1, 0>>, <<0, 0, 0, 1>>>>

Z_NEAR == "1.1"
Z_FAR == "100.0"
ScreenAspect == "screen_width/screen_height"

Camera2D(rotation, zoom, target, offset) ==
    [kind |-> "Camera2D", rotation |-> rotation, zoom |-> zoom,
     target |-> target, offset |-> offset]

Camera3D(position, target, up, fovy, projection) ==
    [kind |-> "Camera3D", position |-> position, target |-> target, up |-> up,
     fovy |-> fovy, projection |-> projection]

\* the 3D branch of RenderState::matrix, its products kept symbolic
matrix_3d(rs) ==
    LET c == rs.camera
        aspect == IF IsSome(rs.aspect) THEN Unwrap(rs.aspect) ELSE ScreenAspect
    IN  IF c.projection = "Perspective"
        THEN <<"perspective_rh_gl", c.fovy, aspect, Z_NEAR, Z_FAR,
               "look_at_rh", c.position, c.target, c.up>>
        ELSE <<"orthographic_rh_gl", c.fovy, aspect, Z_NEAR, Z_FAR,
               "look_at_rh", c.position, c.target, c.up>>

\* RenderState::matrix rotating the zoomed world: scale applied before rotation
matrix_rotate_scaled(rs) ==
    IF rs.camera.kind = "Camera2D"
    THEN LET c == rs.camera
             mat_origin == from_translation(<<-c.target[1], -c.target[2], 0>>)
             mat_rotation == from_axis_angle_z(c.rotation)
             mat_scale == from_scale(<<c.zoom[1], c.zoom[2], 1>>)
             mat_translation == from_translation(<<c.offset[1], c.offset[2], 0>>)
         IN  MatMul(mat_translation, MatMul(MatMul(mat_rotation, mat_scale), mat_origin))
    ELSE matrix_3d(rs)

\* RenderState::matrix applying the aspect override to the planar camera too
matrix_with_aspect(rs) ==
    IF rs.camera.kind = "Camera2D"
    THEN LET c == rs.camera
             mat_origin == from_translation(<<-c.target[1], -c.target[2], 0>>)
             mat_rotation == from_axis_angle_z(c.rotation)
             mat_scale == from_scale(<<c.zoom[1], c.zoom[2], 1>>)
             mat_translation == from_translation(<<c.offset[1], c.offset[2], 0>>)
             mat_aspect == from_scale(<<IF IsSome(rs.aspect) THEN Unwrap(rs.aspect) ELSE 1, 1, 1>>)
         IN  MatMul(mat_aspect,
                    MatMul(mat_translation, MatMul(MatMul(mat_scale, mat_rotation), mat_origin)))
    ELSE matrix_3d(rs)

\* RenderState::matrix.  The 3D products are kept symbolic.
matrix(rs) ==
    IF rs.camera.kind = "Camera2D"
    THEN LET c == rs.camera
             mat_origin == from_translation(<<-c.target[1], -c.target[2], 0>>)
             mat_rotation == from_axis_angle_z(c.rotation)
             mat_scale == from_scale(<<c.zoom[1], c.zoom[2], 1>>)
             mat_translation == from_translation(<<c.offset[1], c.offset[2], 0>>)
         IN  MatMul(mat_translation, MatMul(MatMul(mat_scale, mat_rotation), mat_origin))
    ELSE LET c == rs.camera
             aspect == IF IsSome(rs.aspect) THEN Unwrap(rs.aspect) ELSE ScreenAspect
         IN  IF c.projection = "Perspective"
             THEN <<"perspective_rh_gl", c.fovy, aspect, Z_NEAR, Z_FAR,
                    "look_at_rh", c.position, c.target, c.up>>
             ELSE <<"orthographic_rh_gl", c.fovy, aspect, Z_NEAR, Z_FAR,
                    "look_at_rh", c.position, c.target, c.up>>
----------------------------------------------------------------------------
(* miniquad buffers, textures and bindings, as the scene graph uses them *)

\* Buffer::immutable(ctx, buffer_type, &data); size is in bytes
Buffer(buffer_type, data, elem_bytes) ==
    [buffer_type |-> buffer_type, data |-> data, size |-> Len(data) * elem_bytes]

TextureEmpty == "Texture::empty"

\* the Model that square() builds; coordinates are in half units
square ==
    LET indices == <<0, 1, 2, 0, 2, 3>>
        vertices == <<<<-1, 1, -1>>, <<-1, 1, 1>>, <<1, 1, 1>>, <<1, 1, -1>>>>
        uvs == <<<<0, 1>>, <<0, 0>>, <<1, 0>>, <<1, 1>>>>
        normals == <<<<0, 1, 0>>, <<0, 1, 0>>, <<0, 1, 0>>, <<0, 1, 0>>>>
        vertex_buffer == Buffer("VertexBuffer", vertices, 12)
        normals_buffer == Buffer("VertexBuffer", normals, 12)
        uvs_buffer == Buffer("VertexBuffer", uvs, 8)
        index_buffer == Buffer("IndexBuffer", indices, 2)
    IN  [bindings |-> [vertex_buffers |-> <<vertex_buffer, uvs_buffer, normals_buffer>>,
                       index_buffer |-> index_buffer,
                       images |-> <<TextureEmpty, TextureEmpty>>]]

----------------------------------------------------------------------------
(* load_model *)

\* `ix as u16`: the low 16 bits of a u32
AsU16(ix) == ix % U16

Panic(at) == [kind |-> "Panic", at |-> at]
Err(e) == [kind |-> "Err", error |-> e]
Ok(m) == [kind |-> "Ok", model |-> m]

\* The buffers load_model creates on quad_context, in creation order; none
\* unless every unwrap and assert before line 46 passed.
load_model_buffers(a) ==
    IF ~a.file_ok \/ ~a.import_ok \/ Len(a.meshes) # 1 THEN <<>>
    ELSE IF Len(a.meshes[1]) # 1 THEN <<>>
    ELSE LET primitive == a.meshes[1][1] IN
         IF ~IsSome(primitive.indices) \/ ~IsSome(primitive.positions)
            \/ ~IsSome(primitive.tex_coords) \/ ~IsSome(primitive.normals)
         THEN <<>>
         ELSE LET source == Unwrap(primitive.indices)
                  indices == [k \in 1..Len(source) |-> AsU16(source[k])]
                  vertices == Unwrap(primitive.positions)
                  uvs == Unwrap(primitive.tex_coords)
                  normals == Unwrap(primitive.normals)
              IN  <<Buffer("VertexBuffer", vertices, 12),
                    Buffer("VertexBuffer", normals, 12),
                    Buffer("VertexBuffer", uvs, 8),
                    Buffer("IndexBuffer", indices, 2)>>

\* load_model(path): Err, a panic, or Ok(Model)
load_model(a) ==
    IF ~a.file_ok THEN Err("FileError")
    ELSE IF ~a.import_ok THEN Panic("gltf::import_slice(..).unwrap()")
    ELSE IF Len(a.meshes) # 1 THEN Panic("assert!(gltf.meshes().len() == 1)")
    ELSE IF Len(a.meshes[1]) # 1 THEN Panic("assert!(mesh.primitives().len() == 1)")
    ELSE LET primitive == a.meshes[1][1] IN
         IF ~IsSome(primitive.indices) THEN Panic("read_indices().unwrap()")
         ELSE IF ~IsSome(primitive.positions) THEN Panic("read_positions().unwrap()")
         ELSE IF ~IsSome(primitive.tex_coords) THEN Panic("read_tex_coords(0).unwrap()")
         ELSE IF ~IsSome(primitive.normals) THEN Panic("read_normals().unwrap()")
         ELSE LET b == load_model_buffers(a)
              IN  Ok([bindings |-> [vertex_buffers |-> <<b[1], b[3], b[2]>>,
                                    index_buffer |-> b[4],
                                    images |-> <<TextureEmpty, TextureEmpty>>]])

\* a glTF primitive as primitive.reader sees it
Primitive(indices, positions, normals, tex_coords) ==
    [indices |-> indices, positions |-> positions, normals |-> normals,
     tex_coords |-> tex_coords]

IndexValues == {0, 1, U16 - 1, U16, U16 + 1}

\* index arrays of n triangles
IndexArrays(n) == [1..(3 * n) -> IndexValues]

Positions == <<<<0, 0, 0>>, <<1, 0, 0>>, <<0, 1, 0>>>>
Normals == <<<<0, 1, 0>>, <<0, 1, 0>>, <<0, 1, 0>>>>
TexCoords == <<<<0, 0>>, <<1, 0>>, <<0, 1>>>>

Primitives ==
    { Primitive(ix, p, n, t) :
        ix \in {None} \cup { Some(s) : s \in UNION { IndexArrays(k) : k \in 0..MaxTriangles } },
        p \in {None, Some(Positions)},
        n \in {None, Some(Normals)},
        t \in {None, Some(TexCoords)} }

\* the primitive of examples/ship.gltf: one triangle, every attribute present
ShipPrimitive == Primitive(Some(<<0, 1, 1>>), Some(Positions), Some(Normals), Some(TexCoords))

\* meshes of any shape, built of the ship's primitive
ShapedMeshes ==
    UNION { [1..nm -> UNION { [1..np -> {ShipPrimitive}] : np \in 0..MaxPrimitives }] :
            nm \in 0..MaxMeshes }

Asset(file_ok, import_ok, meshes) ==
    [file_ok |-> file_ok, import_ok |-> import_ok, meshes |-> meshes]

ShipAsset == Asset(TRUE, TRUE, <<<<ShipPrimitive>>>>)

\* an unreadable file, a file that is no glTF, and glTF files of every shape
Assets ==
    {Asset(FALSE, FALSE, <<>>), Asset(TRUE, FALSE, <<>>)}
    \cup { Asset(TRUE, TRUE, m) : m \in ShapedMeshes \cup { <<<<p>>>> : p \in Primitives } }

----------------------------------------------------------------------------
(* RenderState, Material, RenderTarget *)

RenderTarget(render_pass) == [render_pass |-> render_pass]

UniformNames == {"Projection", "Model", "_Time"}

Material(pipeline_3d, texture) ==
    [pipeline_3d |-> pipeline_3d,
     textures_data |-> texture,
     uniforms_data |-> [n \in UniformNames |-> None]]

\* Material::set_uniform(name, value)
set_uniform(material, name, value) ==
    [material EXCEPT !.uniforms_data[name] = Some(value)]

RenderState(camera, render_target, material) ==
    [depth_enabled |-> FALSE, render_target |-> render_target, aspect |-> None,
     camera |-> camera, viewport |-> None, material |-> material]

\* RenderState::default()
RenderStateDefault ==
    RenderState(Camera2D(0, <<1, 1>>, <<0, 0>>, <<0, 0>>), None, None)

\* the 3D RenderState of examples/gltf.rs, here with a material override
RenderState3D ==
    RenderState(Camera3D(<<-10, 7, 0>>, <<0, 0, 0>>, <<0, 1, 0>>, 45, "Perspective"),
                None, Some(Material("pipeline_A", Some("texture_A"))))

\* a rotated, zoomed 2D camera drawing to an off-screen target
RenderStateOffscreen ==
    RenderState(Camera2D(90, <<2, -2>>, <<200, 200>>, <<1, 0>>),
                Some(RenderTarget("offscreen_pass")), None)

\* an orthographic camera, an off-screen target and a material without texture
RenderStateOrtho ==
    RenderState(Camera3D(<<0, 0, 5>>, <<0, 0, 0>>, <<0, 1, 0>>, 2, "Orthographics"),
                Some(RenderTarget("offscreen_pass")), Some(Material("pipeline_B", None)))

RenderStates == {RenderStateDefault, RenderState3D, RenderStateOffscreen, RenderStateOrtho}

\* the RenderStates a caller checks layers out with
LayerStates == {RenderStateDefault, RenderStateOffscreen}

DefaultPipeline == "default_material.pipeline_3d"

----------------------------------------------------------------------------
(* The calls on miniquad's quad_context *)

BeginPass(pass, action) == [kind |-> "begin_pass", pass |-> pass, action |-> action]
ApplyPipeline(p) == [kind |-> "apply_pipeline", pipeline |-> p]
ApplyBindings(b) == [kind |-> "apply_bindings", bindings |-> b]
ApplyUniforms(u) == [kind |-> "apply_uniforms", uniforms |-> u]
Draw(base, n, instances) ==
    [kind |-> "draw", base_element |-> base, num_elements |-> n, num_instances |-> instances]
EndRenderPass == [kind |-> "end_render_pass"]

\* `x as i32` of a usize below 2^32: values past i32::MAX wrap to negatives
I32Max == 2147483647
AsI32(x) == IF x <= I32Max THEN x ELSE ((x - I32Max) - I32Max) - 2

\* i32 division, which truncates toward zero
DivI32(a, b) == IF a >= 0 THEN a \div b ELSE -((-a) \div b)

\* draw_model switching the caller's depth test on
draw_model_state_depth(rs, transform, time) ==
    [rs EXCEPT !.depth_enabled = TRUE]

\* the RenderState as draw_model leaves it: the material's uniforms are set
draw_model_state(rs, transform, time) ==
    IF IsSome(rs.material)
    THEN LET projection == matrix(rs)
             tv == <<time, <<"sin", time>>, <<"cos", time>>, 0>>
             m1 == set_uniform(Unwrap(rs.material), "Projection", projection)
             m2 == set_uniform(m1, "Model", transform)
             m3 == set_uniform(m2, "_Time", tv)
         IN  [rs EXCEPT !.material = Some(m3)]
    ELSE rs

\* draw_model clearing the target as it begins the pass
draw_model_pass_clearing(rs) ==
    IF IsSome(rs.render_target)
    THEN BeginPass(Some(Unwrap(rs.render_target).render_pass), <<"Clear", "BLACK">>)
    ELSE BeginPass(None, <<"Clear", "BLACK">>)

\* draw_model, lines 196-200: the pass it begins
draw_model_pass(rs) ==
    IF IsSome(rs.render_target)
    THEN BeginPass(Some(Unwrap(rs.render_target).render_pass), "Nothing")
    ELSE BeginPass(None, "Nothing")

\* draw_model preferring the default pipeline to the override
draw_model_pipeline_default_only(rs) == ApplyPipeline(DefaultPipeline)

\* draw_model, lines 202-206: the pipeline it applies
draw_model_pipeline(rs) ==
    IF IsSome(rs.material)
    THEN ApplyPipeline(Unwrap(rs.material).pipeline_3d)
    ELSE ApplyPipeline(DefaultPipeline)

\* draw_model, lines 208-216: the bindings it applies
draw_model_bindings(rs, model) ==
    IF IsSome(rs.material)
    THEN ApplyBindings([model.bindings EXCEPT !.images[1] =
                          IF IsSome(Unwrap(rs.material).textures_data)
                          THEN Unwrap(Unwrap(rs.material).textures_data)
                          ELSE TextureEmpty])
    ELSE ApplyBindings(model.bindings)

\* draw_model uploading the identity for the model matrix
draw_model_uniforms_identity(rs, transform, time) ==
    IF IsSome(rs.material)
    THEN ApplyUniforms(Unwrap(draw_model_state(rs, IDENTITY, time).material).uniforms_data)
    ELSE ApplyUniforms([projection |-> matrix(rs), model |-> IDENTITY])

\* draw_model, lines 218-236: the uniforms it applies
draw_model_uniforms(rs, transform, time) ==
    IF IsSome(rs.material)
    THEN ApplyUniforms(Unwrap(draw_model_state(rs, transform, time).material).uniforms_data)
    ELSE ApplyUniforms([projection |-> matrix(rs), model |-> transform])

\* draw_model counting the index buffer in bytes
draw_model_draw_bytes(model) ==
    Draw(0, AsI32(model.bindings.index_buffer.size), 1)

\* draw_model, line 238: the draw call
draw_model_draw(model) ==
    Draw(0, DivI32(AsI32(model.bindings.index_buffer.size), 2), 1)

\* draw_model binding the resources before the pipeline
draw_model_calls_bind_first(rs, model, transform, time) ==
    <<draw_model_pass(rs), draw_model_bindings(rs, model), draw_model_pipeline(rs),
      draw_model_uniforms(rs, transform, time), draw_model_draw(model), EndRenderPass>>

\* draw_model returning without end_render_pass
draw_model_calls_no_end(rs, model, transform, time) ==
    <<draw_model_pass(rs), draw_model_pipeline(rs), draw_model_bindings(rs, model),
      draw_model_uniforms(rs, transform, time), draw_model_draw(model)>>

\* the calls draw_model makes on quad_context, in order
draw_model_calls(rs, model, transform, time) ==
    <<draw_model_pass(rs), draw_model_pipeline(rs), draw_model_bindings(rs, model),
      draw_model_uniforms(rs, transform, time), draw_model_draw(model), EndRenderPass>>

\* the calls clear makes
clear_calls(color) == <<BeginPass(None, <<"Clear", color>>), EndRenderPass>>

\* clear2 clearing the default surface whatever the RenderState
clear2_calls_default_only(rs, color) ==
    <<BeginPass(None, <<"Clear", color>>), EndRenderPass>>

\* the calls clear2 makes
clear2_calls(rs, color) ==
    IF IsSome(rs.render_target)
    THEN <<BeginPass(Some(Unwrap(rs.render_target).render_pass), <<"Clear", color>>),
           EndRenderPass>>
    ELSE <<BeginPass(None, <<"Clear", color>>), EndRenderPass>>

\* QuadGl::new(ctx) and QuadGl::render_pass(pass)
QuadGl(id) == [id |-> id, render_pass |-> None]
gl_render_pass(gl, pass) == [gl EXCEPT !.render_pass = pass]

\* QuadGl::draw(context, projection): the accumulator's draw commands are
\* flushed to its render pass with the given matrix
gl_draw(gl, projection) ==
    <<[kind |-> "flush", pass |-> gl.render_pass, projection |-> projection]>>

\* SpriteLayer::new
SpriteLayer(gl, rs) == [gl |-> gl, render_state |-> rs]

\* calls queued and handed to the device newest first
Submit_newest_first(log, cmds, n) ==
    [i \in 1..Len(cmds) |-> [call |-> n, cmd |-> cmds[i]]] \o log

\* a call on quad_context reaches the device when it is made: it is appended
\* to what the device has received, marked with the scene-graph call it is of
Submit(log, cmds, n) ==
    log \o [i \in 1..Len(cmds) |-> [call |-> n, cmd |-> cmds[i]]]
----------------------------------------------------------------------------
(* SceneGraph *)

\* SceneGraph::new: layers_cache
new_layers_cache == [i \in 1..PoolSize |-> QuadGl(i)]

\* sprite_layer reading the last accumulator without popping it
sprite_layer_peek(cache, rs) ==
    IF Len(cache) = 0
    THEN [panic |-> TRUE, cache |-> cache, layer |-> None]
    ELSE LET render_pass == IF IsSome(rs.render_target)
                            THEN Some(Unwrap(rs.render_target).render_pass) ELSE None
         IN  [panic |-> FALSE, cache |-> cache,
              layer |-> Some(SpriteLayer(gl_render_pass(Last(cache), render_pass), rs))]

\* sprite_layer leaving the accumulator's render pass as its last use set it
sprite_layer_keep_pass(cache, rs) ==
    IF Len(cache) = 0
    THEN [panic |-> TRUE, cache |-> cache, layer |-> None]
    ELSE [panic |-> FALSE, cache |-> Front(cache),
          layer |-> Some(SpriteLayer(Last(cache), rs))]

\* sprite_layer making a new accumulator when the cache is empty
sprite_layer_fresh(cache, rs) ==
    LET render_pass == IF IsSome(rs.render_target)
                       THEN Some(Unwrap(rs.render_target).render_pass) ELSE None
        gl == IF Len(cache) = 0 THEN QuadGl(0) ELSE Last(cache)
    IN  [panic |-> FALSE, cache |-> IF Len(cache) = 0 THEN cache ELSE Front(cache),
         layer |-> Some(SpriteLayer(gl_render_pass(gl, render_pass), rs))]

\* SceneGraph::sprite_layer: the panic of pop().unwrap() on an empty cache,
\* or the cache and the layer it leaves
sprite_layer(cache, rs) ==
    IF Len(cache) = 0
    THEN [panic |-> TRUE, cache |-> cache, layer |-> None]
    ELSE LET gl == Last(cache)
             render_pass == IF IsSome(rs.render_target)
                            THEN Some(Unwrap(rs.render_target).render_pass) ELSE None
         IN  [panic |-> FALSE, cache |-> Front(cache),
              layer |-> Some(SpriteLayer(gl_render_pass(gl, render_pass), rs))]

\* SceneGraph::draw_canvas: the calls on quad_context
draw_canvas_calls(canvas) ==
    LET screen_mat == matrix(canvas.render_state)
    IN  gl_draw(canvas.gl, screen_mat)

\* draw_canvas not pushing the accumulator back
draw_canvas_cache_forget(cache, canvas) == cache

\* SceneGraph::draw_canvas: the cache it leaves
draw_canvas_cache(cache, canvas) == Append(cache, canvas.gl)

\* a scene-graph call as the caller sees it: its arguments, the pool size and
\* the accumulator on top of the pool it found, the layer it yielded or
\* consumed, and the caller's RenderState as a call that took it by &mut left it
Call(op, layer) ==
    [op |-> op, pool_before |-> Len(layers_cache),
     top_before |-> IF Len(layers_cache) = 0 THEN None ELSE Some(Last(layers_cache)),
     layer |-> layer, args |-> <<>>, render_state_after |-> None]

Loaded == IsSome(load_result) /\ Unwrap(load_result).kind = "Ok"

Running == Loaded /\ ~panicked /\ Len(calls) < MaxCalls

Translated == from_translation(<<1, 2, 3>>)

\* what the caller draws, (RenderState, Model, transform), and what get_time() reads
DrawInputs ==
    IF Loaded
    THEN LET ship == Unwrap(load_result).model IN
         {<<RenderStateDefault, ship, IDENTITY, 0>>,
          <<RenderState3D, ship, Translated, 1>>,
          <<RenderState3D, square, IDENTITY, 0>>,
          <<RenderStateOffscreen, square, Translated, 1>>,
          <<RenderStateOrtho, ship, IDENTITY, 1>>}
    ELSE {}
Colors == {"BLUE"}

\* main: load_model("examples/ship.gltf").await.unwrap()
LoadModelCall ==
    /\ ~panicked /\ ~IsSome(load_result)
    /\ load_result' = Some(load_model(asset))
    /\ gpu_buffers' = load_model_buffers(asset)
    /\ panicked' = (load_model(asset).kind # "Ok")
    /\ UNCHANGED <<sceneVars, asset>>

SpriteLayerCall(rs) ==
    /\ Running
    /\ LET r == sprite_layer(layers_cache, rs) IN
        /\ panicked' = r.panic
        /\ layers_cache' = r.cache
        /\ layers' = IF IsSome(r.layer) THEN layers \cup {Unwrap(r.layer)} ELSE layers
        /\ calls' = Append(calls, [Call("sprite_layer", r.layer) EXCEPT !.args = <<rs>>])
    /\ UNCHANGED <<models, leaked, gpu, loadVars>>

DrawCanvasCall(canvas) ==
    /\ Running
    /\ gpu' = Submit(gpu, draw_canvas_calls(canvas), Len(calls) + 1)
    /\ layers_cache' = draw_canvas_cache(layers_cache, canvas)
    /\ layers' = layers \ {canvas}
    /\ calls' = Append(calls, [Call("draw_canvas", Some(canvas)) EXCEPT !.args = <<canvas>>])
    /\ UNCHANGED <<models, leaked, panicked, loadVars>>

\* a SpriteLayer whose Drop hands its QuadGl back to the cache
DropLayer_returns(canvas) ==
    /\ Loaded /\ ~panicked
    /\ layers' = layers \ {canvas}
    /\ leaked' = leaked + 1
    /\ layers_cache' = Append(layers_cache, canvas.gl)
    /\ UNCHANGED <<models, gpu, calls, panicked, loadVars>>

\* a SpriteLayer goes out of scope: it has no Drop that returns its QuadGl
DropLayer(canvas) ==
    /\ Loaded /\ ~panicked
    /\ layers' = layers \ {canvas}
    /\ leaked' = leaked + 1
    /\ UNCHANGED <<models, layers_cache, gpu, calls, panicked, loadVars>>

\* SceneGraph::add_model; the handle it returns is the model's index
AddModelCall(model) ==
    /\ Loaded /\ ~panicked
    /\ Len(models) < MaxModels
    /\ models' = Append(models, <<model, IDENTITY>>)
    /\ UNCHANGED <<layers_cache, layers, leaked, gpu, calls, panicked, loadVars>>

\* SceneGraph::set_transform: indexing past the registered models panics
SetTransformCall(model, transform) ==
    /\ Loaded /\ ~panicked
    /\ IF model < Len(models)
       THEN /\ models' = [models EXCEPT ![model + 1] = <<models[model + 1][1], transform>>]
            /\ panicked' = FALSE
       ELSE /\ models' = models
            /\ panicked' = TRUE
    /\ UNCHANGED <<layers_cache, layers, leaked, gpu, calls, loadVars>>

ClearCall(color) ==
    /\ Running
    /\ gpu' = Submit(gpu, clear_calls(color), Len(calls) + 1)
    /\ calls' = Append(calls, [Call("clear", None) EXCEPT !.args = <<color>>])
    /\ UNCHANGED <<models, layers_cache, layers, leaked, panicked, loadVars>>

Clear2Call(rs, color) ==
    /\ Running
    /\ gpu' = Submit(gpu, clear2_calls(rs, color), Len(calls) + 1)
    /\ calls' = Append(calls, [Call("clear2", None) EXCEPT !.args = <<rs, color>>])
    /\ UNCHANGED <<models, layers_cache, layers, leaked, panicked, loadVars>>

DrawModelCall(rs, model, transform, time) ==
    /\ Running
    /\ gpu' = Submit(gpu, draw_model_calls(rs, model, transform, time), Len(calls) + 1)
    /\ calls' = Append(calls, [Call("draw_model", None) EXCEPT
                                !.args = <<rs, model, transform, time>>,
                                !.render_state_after =
                                    Some(draw_model_state(rs, transform, time))])
    /\ UNCHANGED <<models, layers_cache, layers, leaked, panicked, loadVars>>

\* next_frame().await: the frame's calls are done
NextFrame ==
    /\ Loaded /\ ~panicked /\ calls # <<>>
    /\ gpu' = <<>>
    /\ calls' = <<>>
    /\ UNCHANGED <<models, layers_cache, layers, leaked, panicked, loadVars>>

SceneInit ==
    /\ models = <<>>
    /\ layers_cache = new_layers_cache
    /\ layers = {}
    /\ leaked = 0
    /\ gpu = <<>>
    /\ calls = <<>>
    /\ panicked = FALSE

Init ==
    /\ SceneInit
    /\ asset = ShipAsset
    /\ load_result = None
    /\ gpu_buffers = <<>>

Next ==
    \/ LoadModelCall
    \/ \E rs \in LayerStates : SpriteLayerCall(rs)
    \/ \E canvas \in layers : DrawCanvasCall(canvas)
    \/ \E canvas \in layers : DropLayer(canvas)
    \/ \E color \in Colors : ClearCall(color)
    \/ \E rs \in RenderStates, color \in Colors : Clear2Call(rs, color)
    \/ \E d \in DrawInputs : DrawModelCall(d[1], d[2], d[3], d[4])
    \/ NextFrame

Spec == Init /\ [][Next]_vars

\* the frame loop of a caller that registers models, checks layers out and clears
ClearNext ==
    \/ LoadModelCall
    \/ AddModelCall(square)
    \/ \E model \in 0..Len(models) : SetTransformCall(model, Translated)
    \/ \E rs \in LayerStates : SpriteLayerCall(rs)
    \/ \E color \in Colors : ClearCall(color)
    \/ \E rs \in RenderStates, color \in Colors : Clear2Call(rs, color)
    \/ NextFrame

ClearSpec == Init /\ [][ClearNext]_vars

\* glTF files of one mesh of one primitive with 0..MaxIndices indices
DrawAssets ==
    { Asset(TRUE, TRUE,
            <<<<Primitive(Some([k \in 1..n |-> k % 3]), Some(Positions), Some(Normals),
                          Some(TexCoords))>>>>) : n \in 0..MaxIndices }

\* a model of any index count is loaded and drawn
DrawInit ==
    /\ SceneInit
    /\ asset \in DrawAssets
    /\ load_result = None
    /\ gpu_buffers = <<>>

DrawNext ==
    \/ LoadModelCall
    \/ \E d \in DrawInputs : DrawModelCall(d[1], d[2], d[3], d[4])
    \/ NextFrame

DrawSpec == DrawInit /\ [][DrawNext]_vars

\* planar cameras: rotations by quarter turns, integer zoom, target and offset
Rotations == {0, 90, 180, 270}
Zooms == {<<1, 1>>, <<2, -3>>}
Targets == {<<0, 0>>, <<5, 7>>}
Offsets == {<<0, 0>>, <<1, -2>>}

\* every such camera with the other fields of RenderState at their defaults,
\* and two of them with an off-screen target, aspect, viewport and depth test
PlanarStates ==
    { RenderState(Camera2D(r, z, t, o), None, None) :
        r \in Rotations, z \in Zooms, t \in Targets, o \in Offsets }
    \cup
    { [RenderState(c, Some(RenderTarget("offscreen_pass")), None) EXCEPT
          !.aspect = Some(2), !.viewport = Some(<<0, 0, 64, 64>>), !.depth_enabled = TRUE] :
        c \in {Camera2D(0, <<1, 1>>, <<0, 0>>, <<0, 0>>),
               Camera2D(90, <<2, -3>>, <<5, 7>>, <<1, -2>>)} }

\* the square is drawn through planar cameras
CameraNext ==
    \/ LoadModelCall
    \/ \E rs \in PlanarStates : DrawModelCall(rs, square, IDENTITY, 0)
    \/ NextFrame

CameraSpec == Init /\ [][CameraNext]_vars

\* load_model applied to every asset
LoadInit ==
    /\ SceneInit
    /\ asset \in Assets
    /\ load_result = None
    /\ gpu_buffers = <<>>

LoadNext == LoadModelCall

LoadSpec == LoadInit /\ [][LoadNext]_vars
----------------------------------------------------------------------------
(* What the device has received *)

Kind(k) == gpu[k].cmd.kind

\* the kinds of the calls on quad_context that scene-graph call i made, in order
KindsOf(i) ==
    LET own == SelectSeq(gpu, LAMBDA c : c.call = i)
    IN  [k \in 1..Len(own) |-> own[k].cmd.kind]

\* the number of passes open after the first k calls on quad_context
OpenPasses(k) ==
    Cardinality({j \in 1..k : Kind(j) = "begin_pass"})
    - Cardinality({j \in 1..k : Kind(j) = "end_render_pass"})

\* the pool size after scene-graph call i of this frame
PoolAfter(i) == IF i < Len(calls) THEN calls[i + 1].pool_before ELSE Len(layers_cache)

DrawModelOrder ==
    <<"begin_pass", "apply_pipeline", "apply_bindings", "apply_uniforms", "draw",
      "end_render_pass">>

----------------------------------------------------------------------------
(* The layer pool *)

\* C1: a sprite_layer call that yields a layer, followed at once by draw_canvas
\* of that layer, leaves layers_cache with the length it had before the
\* sprite_layer call.
C1_RoundTripKeepsPoolSize ==
    \A i \in 2..Len(calls) :
        (/\ calls[i].op = "draw_canvas"
         /\ calls[i - 1].op = "sprite_layer"
         /\ calls[i - 1].layer = calls[i].layer)
        => PoolAfter(i) = calls[i - 1].pool_before

\* a round trip made on a pool holding a single accumulator
C1_Witness ==
    /\ Len(calls) = 2
    /\ calls[1].op = "sprite_layer" /\ calls[1].pool_before = 1
    /\ calls[2].op = "draw_canvas" /\ calls[2].layer = calls[1].layer
    /\ Len(layers_cache) = 1

\* C2: as long as no layer was dropped (only sprite_layer, draw_canvas,
\* draw_model, clear and clear2 were called), at most PoolSize layers are
\* checked out and the pool and the checked-out layers together number
\* PoolSize; a frame that begins with no layer held begins with a full pool.
C2_PoolConservation ==
    leaked = 0 =>
        /\ Cardinality(layers) <= PoolSize
        /\ Len(layers_cache) + Cardinality(layers) = PoolSize
        /\ (calls = <<>> /\ layers = {}) => Len(layers_cache) = PoolSize

\* every accumulator is checked out, none was dropped
C2_Witness ==
    /\ leaked = 0
    /\ Cardinality(layers) = PoolSize
    /\ Len(layers_cache) = 0
    /\ ~panicked

\* C3: a sprite_layer call on an empty pool panics; it yields no layer and
\* leaves the pool, the checked-out layers and the device's calls as they were.
C3_EmptyPoolPanics ==
    [][(/\ Len(layers_cache) = 0
        /\ Len(calls') = Len(calls) + 1
        /\ calls'[Len(calls')].op = "sprite_layer")
       => (/\ panicked'
           /\ calls'[Len(calls')].layer = None
           /\ layers' = layers
           /\ layers_cache' = layers_cache
           /\ gpu' = gpu)]_vars

\* sprite_layer was called with all three layers checked out
C3_Witness ==
    /\ panicked
    /\ calls # <<>>
    /\ calls[Len(calls)].op = "sprite_layer"
    /\ calls[Len(calls)].pool_before = 0
    /\ Cardinality(layers) + leaked = PoolSize

----------------------------------------------------------------------------
(* The order of the calls on quad_context *)

\* C4: every draw_model call makes exactly the calls begin_pass,
\* apply_pipeline, apply_bindings, apply_uniforms, draw, end_render_pass, in
\* this order, beginning and ending with no pass open.
C4_DrawModelOrder ==
    \A i \in 1..Len(calls) :
        calls[i].op = "draw_model" =>
            /\ KindsOf(i) = DrawModelOrder
            /\ \A k \in 1..Len(gpu) :
                  gpu[k].call = i =>
                      /\ Kind(k) = "begin_pass" => OpenPasses(k - 1) = 0
                      /\ Kind(k) = "end_render_pass" => OpenPasses(k) = 0

\* draw_model was called with and without render target and material
C4_Witness ==
    /\ Len(calls) = 2
    /\ calls[1].op = "draw_model" /\ calls[2].op = "draw_model"
    /\ Len(gpu) = 12
    /\ gpu[1].cmd.pass = None /\ gpu[2].cmd.pipeline = DefaultPipeline
    /\ gpu[7].cmd.pass # None /\ gpu[8].cmd.pipeline = "pipeline_B"

\* C5: after every call on quad_context at most one pass is open: begin_pass
\* comes only with no pass open, end_render_pass only with one open, and no
\* pass is open where a scene-graph call returns.
C5_OnePassAtATime ==
    \A k \in 1..Len(gpu) :
        /\ Kind(k) = "begin_pass" => OpenPasses(k - 1) = 0
        /\ Kind(k) = "end_render_pass" => OpenPasses(k - 1) = 1
        /\ Kind(k) = "flush" => OpenPasses(k - 1) = 0
        /\ (k = Len(gpu) \/ gpu[k + 1].call # gpu[k].call) => OpenPasses(k) = 0

\* a frame of clear2 and draw_model
C5_Witness ==
    /\ Len(calls) = 2
    /\ calls[1].op = "clear2" /\ calls[2].op = "draw_model"
    /\ Len(gpu) = 8
    /\ OpenPasses(1) = 1 /\ OpenPasses(3) = 1 /\ OpenPasses(8) = 0

\* C6: the device receives the calls of draw_model calls in the order the
\* caller made them: of two draw_model calls of a frame, each begins a pass
\* and every call on quad_context of the earlier precedes the later's begin_pass.
C6_DrawOrderKept ==
    \A i \in 1..Len(calls) : \A j \in 1..Len(calls) :
        (i < j /\ calls[i].op = "draw_model" /\ calls[j].op = "draw_model") =>
            /\ \E b \in 1..Len(gpu) : gpu[b].call = j /\ Kind(b) = "begin_pass"
            /\ \E a \in 1..Len(gpu) : gpu[a].call = i /\ Kind(a) = "end_render_pass"
            /\ \A a \in 1..Len(gpu) : \A b \in 1..Len(gpu) :
                  (gpu[a].call = i /\ gpu[b].call = j /\ Kind(b) = "begin_pass") => a < b

\* two draw_model calls of different models to different targets
C6_Witness ==
    /\ Len(calls) = 2
    /\ calls[1].op = "draw_model" /\ calls[2].op = "draw_model"
    /\ Len(gpu) = 12
    /\ gpu[1].cmd.pass # gpu[7].cmd.pass
    /\ gpu[3].cmd.bindings # gpu[9].cmd.bindings
----------------------------------------------------------------------------
(* load_model *)

\* the asset is glTF with one mesh of one primitive
OneMeshOnePrimitive ==
    asset.file_ok /\ asset.import_ok /\ Len(asset.meshes) = 1 /\ Len(asset.meshes[1]) = 1

\* the asset's only primitive
ThePrimitive == asset.meshes[1][1]

HasRequiredAttributes ==
    /\ IsSome(ThePrimitive.indices)
    /\ IsSome(ThePrimitive.positions)
    /\ IsSome(ThePrimitive.normals)

\* one mesh, one primitive, the required attributes, indices of whole
\* triangles that fit 16 bits; the UV set may be absent
WellFormed ==
    /\ OneMeshOnePrimitive
    /\ HasRequiredAttributes
    /\ Len(Unwrap(ThePrimitive.indices)) % 3 = 0
    /\ \A k \in 1..Len(Unwrap(ThePrimitive.indices)) : Unwrap(ThePrimitive.indices)[k] < U16

LoadDone == IsSome(load_result)
LoadKind == Unwrap(load_result).kind

\* C7: load_model gives no Model when an index read from the asset exceeds 65535.
C7_IndexPast16BitsFails ==
    (/\ LoadDone /\ OneMeshOnePrimitive /\ IsSome(ThePrimitive.indices)
     /\ \E k \in 1..Len(Unwrap(ThePrimitive.indices)) : Unwrap(ThePrimitive.indices)[k] >= U16)
    => LoadKind # "Ok"

\* C8: load_model of a glTF asset whose mesh count or primitive count is not 1
\* returns Err to the caller, and no buffer was created.
C8_ShapeErrorReturned ==
    (/\ LoadDone /\ asset.file_ok /\ asset.import_ok
     /\ (Len(asset.meshes) # 1 \/ Len(asset.meshes[1]) # 1))
    => (LoadKind = "Err" /\ gpu_buffers = <<>>)

\* C9: load_model of a well-formed asset of N triangles gives a Model whose
\* index buffer holds the 3N source indices, each below 65536.
C9_WellFormedLoads ==
    (LoadDone /\ WellFormed) =>
        /\ LoadKind = "Ok"
        /\ LET ib == Unwrap(load_result).model.bindings.index_buffer
               src == Unwrap(ThePrimitive.indices)
           IN  /\ Len(ib.data) = Len(src)
               /\ ib.size = 2 * Len(src)
               /\ \A k \in 1..Len(src) : ib.data[k] = src[k] /\ ib.data[k] < U16

\* C9 for the assets that carry a UV set
WellFormedWithUvLoads ==
    (LoadDone /\ WellFormed /\ IsSome(ThePrimitive.tex_coords)) =>
        /\ LoadKind = "Ok"
        /\ LET ib == Unwrap(load_result).model.bindings.index_buffer
               src == Unwrap(ThePrimitive.indices)
           IN  /\ Len(ib.data) = Len(src)
               /\ ib.size = 2 * Len(src)
               /\ \A k \in 1..Len(src) : ib.data[k] = src[k] /\ ib.data[k] < U16

\* C10: of the assets with one mesh of one primitive, those with indices,
\* positions and normals load, with or without a UV set, and those missing
\* one of the three do not.
C10_UvOptional ==
    (LoadDone /\ OneMeshOnePrimitive) =>
        (LoadKind = "Ok") = HasRequiredAttributes

\* C10 for what is required: a missing index, position or normal array fails the load
RequiredAttributeMissingFails ==
    (LoadDone /\ OneMeshOnePrimitive /\ ~HasRequiredAttributes) => LoadKind # "Ok"
----------------------------------------------------------------------------
(* What draw_model hands to the device *)

\* the call of the given kind that scene-graph call i made on quad_context
CmdOf(i, kind) ==
    gpu[CHOOSE k \in 1..Len(gpu) : gpu[k].call = i /\ gpu[k].cmd.kind = kind].cmd

\* how many calls of the given kind scene-graph call i made
CountOf(i, kind) ==
    Cardinality({k \in 1..Len(gpu) : gpu[k].call = i /\ gpu[k].cmd.kind = kind})

\* the value uploaded for a uniform of the shader, None when it is not uploaded:
\* a material uploads its uniforms_data, the default path shader::Uniforms
UniformValue(u, name) ==
    IF "Projection" \in DOMAIN u
    THEN u[name]
    ELSE CASE name = "Projection" -> Some(u.projection)
           [] name = "Model" -> Some(u.model)
           [] OTHER -> None

TimeVector(t) == <<t, <<"sin", t>>, <<"cos", t>>, 0>>

DrawModelCalls == {i \in 1..Len(calls) : calls[i].op = "draw_model"}

\* a frame of a draw with a material override, then a draw with the default material
TwoDrawsWitness ==
    /\ Len(calls) = 2
    /\ calls[1].op = "draw_model" /\ IsSome(calls[1].args[1].material)
    /\ calls[2].op = "draw_model" /\ ~IsSome(calls[2].args[1].material)

\* C11 as claimed: every draw_model call uploads projection, model transform
\* and time_vector = (t, sin t, cos t, 0), with and without a material override.
C11_UniformsHaveTime ==
    \A i \in DrawModelCalls :
        LET u == CmdOf(i, "apply_uniforms").uniforms
            a == calls[i].args
        IN  /\ UniformValue(u, "Projection") = Some(matrix(a[1]))
            /\ UniformValue(u, "Model") = Some(a[3])
            /\ UniformValue(u, "_Time") = Some(TimeVector(a[4]))

\* C11, amended: every draw_model call uploads projection and model transform;
\* it uploads time_vector = (t, sin t, cos t, 0) with a material override and
\* no time vector with the default material.
C11_UniformsUploaded ==
    \A i \in DrawModelCalls :
        LET u == CmdOf(i, "apply_uniforms").uniforms
            a == calls[i].args
        IN  /\ CountOf(i, "apply_uniforms") = 1
            /\ UniformValue(u, "Projection") = Some(matrix(a[1]))
            /\ UniformValue(u, "Model") = Some(a[3])
            /\ UniformValue(u, "_Time") =
                  IF IsSome(a[1].material) THEN Some(TimeVector(a[4])) ELSE None

C11_Witness ==
    /\ TwoDrawsWitness
    /\ calls[1].args[3] # IDENTITY /\ calls[1].args[4] = 1
    /\ calls[2].args[3] # IDENTITY

\* C12: every draw_model call applies exactly one pipeline: the material's
\* when render_state.material is present, the scene graph's default when absent.
C12_PipelineOverrideFirst ==
    \A i \in DrawModelCalls :
        LET rs == calls[i].args[1]
            p == CmdOf(i, "apply_pipeline").pipeline
        IN  /\ CountOf(i, "apply_pipeline") = 1
            /\ IsSome(rs.material) => p = Unwrap(rs.material).pipeline_3d
            /\ ~IsSome(rs.material) => p = DefaultPipeline
            /\ (p = DefaultPipeline) = ~IsSome(rs.material)

C12_Witness ==
    /\ TwoDrawsWitness
    /\ CmdOf(1, "apply_pipeline").pipeline = "pipeline_A"
    /\ CmdOf(2, "apply_pipeline").pipeline = DefaultPipeline

\* C13: every draw_model call begins exactly one pass, the render target's
\* when render_state.render_target is set and the default surface's when not,
\* with PassAction::Nothing.
C13_PassOfTargetNoClear ==
    \A i \in DrawModelCalls :
        LET rs == calls[i].args[1]
            b == CmdOf(i, "begin_pass")
        IN  /\ CountOf(i, "begin_pass") = 1
            /\ IsSome(rs.render_target) =>
                  b.pass = Some(Unwrap(rs.render_target).render_pass)
            /\ ~IsSome(rs.render_target) => b.pass = None
            /\ b.action = "Nothing"

\* a frame of a draw to the default surface and a draw to an off-screen target
C13_Witness ==
    /\ Len(calls) = 2
    /\ calls[1].op = "draw_model" /\ ~IsSome(calls[1].args[1].render_target)
    /\ calls[2].op = "draw_model" /\ IsSome(calls[2].args[1].render_target)
    /\ CmdOf(2, "begin_pass").pass = Some("offscreen_pass")
----------------------------------------------------------------------------
(* The caller's RenderState and the layers bound to it *)

\* a scene-graph call of the given name returns in this step
Returns(op) ==
    /\ Len(calls') = Len(calls) + 1
    /\ calls'[Len(calls')].op = op

\* C18 as claimed: after draw_model returns, the caller's RenderState, the
\* state of its material override included, is as it was before the call.
C18_RenderStateImmutable ==
    \A i \in DrawModelCalls : calls[i].render_state_after = Some(calls[i].args[1])

\* C18, amended: draw_model changes nothing of the caller's RenderState but
\* the uniform data of its material override, where it stores projection,
\* model transform and time vector; without an override the RenderState is as
\* it was; and the scene graph's own state is as before the call.
C18_OnlyMaterialUniformsChange ==
    [][Returns("draw_model") =>
        LET c == calls'[Len(calls')]
            before == c.args[1]
            after == Unwrap(c.render_state_after)
        IN  /\ \A f \in {"depth_enabled", "render_target", "aspect", "camera", "viewport"} :
                  after[f] = before[f]
            /\ IsSome(after.material) = IsSome(before.material)
            /\ ~IsSome(before.material) => after = before
            /\ IsSome(before.material) =>
                  /\ Unwrap(after.material).pipeline_3d = Unwrap(before.material).pipeline_3d
                  /\ Unwrap(after.material).textures_data = Unwrap(before.material).textures_data
                  /\ Unwrap(after.material).uniforms_data =
                        [n \in UniformNames |->
                            CASE n = "Projection" -> Some(matrix(before))
                              [] n = "Model" -> Some(c.args[3])
                              [] n = "_Time" -> Some(TimeVector(c.args[4]))]
            /\ layers_cache' = layers_cache /\ layers' = layers /\ leaked' = leaked]_vars

\* draw_model returned from a call with a material override whose uniforms
\* were unset, and from one without override
C18_Witness ==
    /\ Len(calls) = 2
    /\ calls[1].op = "draw_model" /\ IsSome(calls[1].args[1].material)
    /\ Unwrap(calls[1].args[1].material).uniforms_data["Model"] = None
    /\ calls[1].render_state_after # Some(calls[1].args[1])
    /\ calls[2].op = "draw_model" /\ ~IsSome(calls[2].args[1].material)
    /\ calls[2].render_state_after = Some(calls[2].args[1])

\* the pass of a RenderState's target, None for the default surface
TargetPass(rs) ==
    IF IsSome(rs.render_target) THEN Some(Unwrap(rs.render_target).render_pass) ELSE None

\* C19: the layer sprite_layer yields is bound to the RenderState given and
\* its accumulator's render pass is that RenderState's target, whatever pass
\* the accumulator had before; draw_canvas flushes the layer once, to that pass
\* and with the camera matrix of that RenderState, and returns the accumulator
\* to the pool.
C19_LayerBoundToItsRenderState ==
    /\ \A l \in layers : l.gl.render_pass = TargetPass(l.render_state)
    /\ \A i \in 1..Len(calls) :
          /\ (calls[i].op = "sprite_layer" /\ IsSome(calls[i].layer)) =>
                LET l == Unwrap(calls[i].layer) IN
                /\ l.render_state = calls[i].args[1]
                /\ l.gl.render_pass = TargetPass(calls[i].args[1])
                /\ l.gl.id = Unwrap(calls[i].top_before).id
          /\ calls[i].op = "draw_canvas" =>
                LET canvas == calls[i].args[1] IN
                /\ CountOf(i, "flush") = 1
                /\ CmdOf(i, "flush").pass = TargetPass(canvas.render_state)
                /\ CmdOf(i, "flush").projection = matrix(canvas.render_state)
                /\ PoolAfter(i) = calls[i].pool_before + 1
                /\ i = Len(calls) => Last(layers_cache).id = canvas.gl.id

\* an accumulator last used for the off-screen target is checked out for the
\* default surface and flushed there
C19_Witness ==
    /\ Len(calls) = 2
    /\ calls[1].op = "sprite_layer" /\ calls[1].args[1] = RenderStateDefault
    /\ Unwrap(calls[1].top_before).render_pass = Some("offscreen_pass")
    /\ calls[2].op = "draw_canvas" /\ calls[2].layer = calls[1].layer
    /\ CmdOf(2, "flush").pass = None
    /\ CmdOf(2, "flush").projection = IDENTITY

\* C20: a layer that goes out of scope without draw_canvas leaves the pool as
\* it is; the pool and the layers held number PoolSize less the layers dropped,
\* a number that never decreases; and once PoolSize layers were dropped every
\* sprite_layer call panics and yields no layer.
C20_DroppedLayerLeaks ==
    [][/\ leaked' >= leaked
       /\ Len(layers_cache') + Cardinality(layers') = PoolSize - leaked'
       /\ (layers' # layers /\ calls' = calls) =>
             (leaked' = leaked + 1 /\ layers_cache' = layers_cache)
       /\ (leaked = PoolSize /\ Returns("sprite_layer")) =>
             (panicked' /\ calls'[Len(calls')].layer = None /\ layers' = layers)]_vars

\* three layers were dropped, and the sprite_layer call after them panicked
C20_Witness ==
    /\ leaked = PoolSize
    /\ layers = {} /\ Len(layers_cache) = 0
    /\ panicked
    /\ calls # <<>> /\ calls[Len(calls)].op = "sprite_layer"
    /\ calls[Len(calls)].layer = None
----------------------------------------------------------------------------
(* clear and clear2 *)

\* C14: clear and clear2 make exactly two calls on quad_context, a begin of a
\* pass with the clear action of the given colour and at once its end, and no
\* apply_pipeline, apply_bindings, apply_uniforms or draw; the pass is the
\* render target's when clear2's RenderState has one and the default surface's
\* otherwise (always for clear); models, layers_cache and the layers held are
\* as before the call.
C14_ClearOnlyClears ==
    [][(Returns("clear") \/ Returns("clear2")) =>
        LET n == Len(calls')
            c == calls'[n]
            color == IF c.op = "clear" THEN c.args[1] ELSE c.args[2]
            pass == IF c.op = "clear" THEN None ELSE TargetPass(c.args[1])
        IN  /\ gpu' = gpu \o
                  <<[call |-> n, cmd |-> [kind |-> "begin_pass", pass |-> pass,
                                          action |-> <<"Clear", color>>]],
                    [call |-> n, cmd |-> [kind |-> "end_render_pass"]]>>
            /\ models' = models
            /\ layers_cache' = layers_cache
            /\ layers' = layers
            /\ leaked' = leaked]_vars

\* with a model registered and moved and a layer checked out, clear2 cleared
\* the off-screen target and clear the default surface
C14_Witness ==
    /\ Len(models) = 1 /\ models[1][2] = Translated
    /\ Cardinality(layers) = 1 /\ Len(layers_cache) = PoolSize - 1
    /\ Len(calls) = 2
    /\ calls[1].op = "clear2" /\ calls[2].op = "clear"
    /\ Len(gpu) = 4
    /\ gpu[1].cmd.pass = Some("offscreen_pass") /\ gpu[3].cmd.pass = None
    /\ gpu[1].cmd.action = <<"Clear", "BLUE">>
----------------------------------------------------------------------------
(* The planar camera *)

\* the affine maps of the plane as 4x4 matrices acting on column vectors
Translate(v) ==
    [i \in 1..4 |-> [j \in 1..4 |->
        IF i = j THEN 1 ELSE IF j = 4 /\ i <= 2 THEN v[i] ELSE 0]]
Scale(v) ==
    [i \in 1..4 |-> [j \in 1..4 |->
        IF i # j THEN 0 ELSE IF i <= 2 THEN v[i] ELSE 1]]

\* the counter-clockwise rotation about z by d degrees, d a multiple of 90:
\* it takes (1, 0) to (cos d, sin d)
Rotate(d) ==
    LET q == (d % 360) \div 90
        c == <<1, 0, -1, 0>>[q + 1]
        sn == <<0, 1, 0, -1>>[q + 1]
    IN  <<<<c, -sn, 0, 0>>, <<sn, c, 0, 0>>, <<0, 0, 1, 0>>, <<0, 0, 0, 1>>>>

Compose(a, b, c, d) == MatMul(MatMul(MatMul(a, b), c), d)

\* the draw_model calls made with a planar camera
PlanarCalls ==
    {i \in DrawModelCalls : calls[i].args[1].camera.kind = "Camera2D"}

\* the projection draw_model call i uploaded
ProjectionOf(i) ==
    Unwrap(UniformValue(CmdOf(i, "apply_uniforms").uniforms, "Projection"))

\* C15 as claimed: the planar camera matrix is
\* Translate(offset) * Scale(zoom) * Rotate(-rotation) * Translate(-target).
C15_RotationNegated ==
    \A i \in PlanarCalls :
        LET c == calls[i].args[1].camera
        IN  ProjectionOf(i) =
                Compose(Translate(c.offset), Scale(c.zoom), Rotate(-c.rotation),
                        Translate(<<-c.target[1], -c.target[2]>>))

\* C15, amended: for integer target, offset and zoom and rotation a multiple
\* of 90 degrees the planar camera matrix is
\* Translate(offset) * Scale(zoom) * Rotate(rotation) * Translate(-target),
\* in this order and with the rotation's sign kept.
C15_PlanarComposition ==
    \A i \in PlanarCalls :
        LET c == calls[i].args[1].camera
        IN  ProjectionOf(i) =
                Compose(Translate(c.offset), Scale(c.zoom), Rotate(c.rotation),
                        Translate(<<-c.target[1], -c.target[2]>>))

\* a camera turned by 90 degrees with uneven zoom, a target and an offset:
\* the world's x axis goes to the zoomed y axis
C15_Witness ==
    /\ Len(calls) = 2
    /\ calls[1].op = "draw_model"
    /\ calls[1].args[1].camera = Camera2D(90, <<2, -3>>, <<5, 7>>, <<1, -2>>)
    /\ ProjectionOf(1) = <<<<0, -2, 0, 15>>, <<-3, 0, 0, 13>>, <<0, 0, 1, 0>>, <<0, 0, 0, 1>>>>
    /\ calls[2].op = "draw_model"
    /\ calls[2].args[1].camera.rotation = 270

IdentityCamera == Camera2D(0, <<1, 1>>, <<0, 0>>, <<0, 0>>)

\* C16: the planar camera with rotation 0, zoom (1, 1), offset (0, 0) and
\* target (0, 0), which RenderState::default() has, gives the identity matrix
\* whatever aspect, viewport, render_target and depth_enabled are.
C16_DefaultCameraIsIdentity ==
    /\ RenderStateDefault.camera = IdentityCamera
    /\ matrix(RenderStateDefault) = IDENTITY
    /\ \A i \in PlanarCalls :
          calls[i].args[1].camera = IdentityCamera => ProjectionOf(i) = IDENTITY

\* the identity camera drew with the other fields at their defaults and set
C16_Witness ==
    /\ Len(calls) = 2
    /\ calls[1].op = "draw_model" /\ calls[1].args[1] = RenderStateDefault
    /\ calls[2].op = "draw_model" /\ calls[2].args[1].camera = IdentityCamera
    /\ calls[2].args[1].aspect = Some(2) /\ calls[2].args[1].depth_enabled
    /\ IsSome(calls[2].args[1].viewport) /\ IsSome(calls[2].args[1].render_target)
    /\ ProjectionOf(1) = IDENTITY /\ ProjectionOf(2) = IDENTITY

----------------------------------------------------------------------------
(* The draw call *)

\* C17: every draw_model call makes exactly one draw call: from element 0, one
\* instance, and as many elements as the model's index buffer has indices.
C17_DrawsEveryIndexOnce ==
    \A i \in DrawModelCalls :
        LET model == calls[i].args[2]
            d == CmdOf(i, "draw")
        IN  /\ CountOf(i, "draw") = 1
            /\ d.num_elements = Len(model.bindings.index_buffer.data)
            /\ d.base_element = 0
            /\ d.num_instances = 1

\* models of an odd number of indices and of an even number were drawn
C17_Witness ==
    /\ Len(calls) = 2
    /\ calls[1].op = "draw_model" /\ calls[2].op = "draw_model"
    /\ CmdOf(1, "draw").num_elements = 3
    /\ Len(calls[1].args[2].bindings.index_buffer.data) = 3
    /\ CmdOf(2, "draw").num_elements = 6

\* a model without indices was drawn
C17_WitnessEmpty ==
    /\ calls # <<>> /\ calls[1].op = "draw_model"
    /\ calls[1].args[2].bindings.index_buffer.data = <<>>
    /\ CmdOf(1, "draw").num_elements = 0

====
